---- MODULE Spec2Model ----
(***************************************************************************)
(* A model of pypi_simple/parse_old.py: the link extractor parse_links     *)
(* (a Python generator), and its two adapters parse_simple_index (a        *)
(* generator that projects each triple to a pair) and parse_project_page   *)
(* (an eager loop that hands each link to the classifier).                 *)
(*                                                                         *)
(* Representation of the values the code handles:                          *)
(*  - a text string is the sequence of its characters;                     *)
(*  - a URL string is the record of its urlsplit components, the path kept *)
(*    as the list path.split('/') (split and '/'.join are inverse to each  *)
(*    other, so the record and the string determine each other); the URLs  *)
(*    of the model carry no params, query or fragment;                     *)
(*  - a parsed document (the BeautifulSoup tree) is the sequence of its    *)
(*    elements in document order; an element has a tag name, its attribute *)
(*    dict (lowercase keys, as the parser delivers them) and the list of   *)
(*    its descendant text nodes in document order (Tag.strings);           *)
(*  - Python's None is the value None.                                     *)
(* from_encoding only steers the parser's decoding of bytes and has no    *)
(* part in the model: the document is taken as parsed.                     *)
(***************************************************************************)
EXTENDS Integers, Sequences, FiniteSets, TLC

None == [none |-> TRUE]

(***************************************************************************)
(* Text: str.join and str.strip                                            *)
(***************************************************************************)
Whitespace == {" ", "\n", "\t"}

RECURSIVE JoinStrings(_)
JoinStrings(strings) ==
    IF strings = <<>> THEN <<>>
    ELSE Head(strings) \o JoinStrings(Tail(strings))

RECURSIVE LStrip(_)
LStrip(s) ==
    IF s # <<>> /\ Head(s) \in Whitespace THEN LStrip(Tail(s)) ELSE s

RECURSIVE RStrip(_)
RStrip(s) ==
    IF s # <<>> /\ s[Len(s)] \in Whitespace
    THEN RStrip(SubSeq(s, 1, Len(s) - 1))
    ELSE s

Strip(s) == RStrip(LStrip(s))

(***************************************************************************)
(* URLs: urllib.parse.urljoin                                              *)
(***************************************************************************)
Url(scheme, netloc, path) == [scheme |-> scheme, netloc |-> netloc, path |-> path]

EmptyUrl == Url("", "", <<"">>)

uses_relative == {"", "http", "https", "ftp", "file"}
uses_netloc == {"", "http", "https", "ftp", "file"}

\* urlparse(url, scheme): the components of url, the scheme defaulting to
\* the one given when url has none.
urlparse(url, scheme) ==
    Url(IF url.scheme = "" THEN scheme ELSE url.scheme, url.netloc, url.path)

\* path[:1] == '/' on the split path.
IsRooted(path) == Len(path) >= 2 /\ path[1] = ""

\* urlunparse: a non-empty path that follows a netloc gets a leading '/'.
urlunparse(scheme, netloc, path) ==
    IF netloc # "" /\ path # <<"">> /\ ~IsRooted(path)
    THEN Url(scheme, netloc, <<"">> \o path)
    ELSE Url(scheme, netloc, path)

\* segments[1:-1] = filter(None, segments[1:-1])
FilterMiddle(segments) ==
    IF Len(segments) <= 2 THEN segments
    ELSE <<segments[1]>>
         \o SelectSeq(SubSeq(segments, 2, Len(segments) - 1), LAMBDA seg : seg # "")
         \o <<segments[Len(segments)]>>

\* the loop over segments that removes '.' and applies '..'
RECURSIVE ResolveDots(_, _)
ResolveDots(segments, resolved_path) ==
    IF segments = <<>> THEN resolved_path
    ELSE LET seg == Head(segments) IN
         ResolveDots(Tail(segments),
            IF seg = ".."
            THEN (IF resolved_path = <<>> THEN resolved_path
                  ELSE SubSeq(resolved_path, 1, Len(resolved_path) - 1))
            ELSE IF seg = "." THEN resolved_path
            ELSE Append(resolved_path, seg))

urljoin(base, url) ==
    IF base = EmptyUrl THEN url
    ELSE IF url = EmptyUrl THEN base
    ELSE
      LET b == urlparse(base, "")
          u == urlparse(url, b.scheme)
      IN
      IF u.scheme # b.scheme \/ u.scheme \notin uses_relative THEN url
      ELSE IF u.scheme \in uses_netloc /\ u.netloc # ""
      THEN urlunparse(u.scheme, u.netloc, u.path)
      ELSE
        LET netloc == IF u.scheme \in uses_netloc THEN b.netloc ELSE u.netloc IN
        IF u.path = <<"">> THEN urlunparse(u.scheme, netloc, b.path)
        ELSE
          LET base_parts ==
                  IF b.path[Len(b.path)] # ""
                  THEN SubSeq(b.path, 1, Len(b.path) - 1)
                  ELSE b.path
              segments ==
                  IF IsRooted(u.path) THEN u.path
                  ELSE FilterMiddle(base_parts \o u.path)
              resolved ==
                  ResolveDots(segments, <<>>)
                  \o (IF segments[Len(segments)] \in {".", ".."} THEN <<"">> ELSE <<>>)
          IN
          urlunparse(u.scheme, netloc,
                     IF resolved = <<>> \/ resolved = <<"">> THEN <<"", "">> ELSE resolved)

(***************************************************************************)
(* Documents                                                               *)
(***************************************************************************)
Element(name, attrs, strings) == [name |-> name, attrs |-> attrs, strings |-> strings]

U_ab == Url("http", "a", <<"", "b", "">>)            \* "http://a/b/"
U_abi == Url("http", "a", <<"", "b", "i.html">>)     \* "http://a/b/i.html"
U_abc == Url("http", "a", <<"", "b", "c", "">>)      \* "http://a/b/c/"
U_abcd == Url("http", "a", <<"", "b", "c", "d">>)    \* "http://a/b/c/d"
U_xy == Url("http", "x", <<"", "y", "">>)            \* "http://x/y/"
U_xyz == Url("http", "x", <<"", "y", "z">>)          \* "http://x/y/z"
U_xe == Url("http", "x", <<"", "e">>)                \* "http://x/e"
U_c == Url("", "", <<"c", "">>)                      \* "c/"
U_d == Url("", "", <<"d">>)                          \* "d"
U_z == Url("", "", <<"z">>)                          \* "z"
U_up == Url("", "", <<"..", "e">>)                   \* "../e"

\* <base target="_top">
B_none == Element("base", [target |-> <<"_", "t", "o", "p">>], <<>>)
\* <base href="c/">
B_c == Element("base", [href |-> U_c], <<>>)
\* <base href="http://x/y/">
B_xy == Element("base", [href |-> U_xy], <<>>)
\* <a name="top">skip</a>
A_name == Element("a", [name |-> <<"t", "o", "p">>], << <<"s", "k", "i", "p">> >>)
\* <a href="d" class="a b">  <b>foo</b> \n <i>bar</i>  </a>
A_d == Element("a", [href |-> U_d, class |-> << <<"a">>, <<"b">> >>],
               << <<" ", " ">>, <<"f", "o", "o">>, <<" ", "\n", " ">>,
                  <<"b", "a", "r">>, <<" ", " ">> >>)
\* <a href="z">PkgA</a>
A_z == Element("a", [href |-> U_z], << <<"P", "k", "g", "A">> >>)
\* <a href="../e" data-x="1"> PkgB\n</a>
A_up == Element("a", [href |-> U_up] @@ ("data-x" :> <<"1">>),
                << <<" ", "P", "k", "g", "B", "\n">> >>)
\* <a href=""> <b>\t</b></a>
A_empty == Element("a", [href |-> EmptyUrl], << <<" ">>, <<"\t">> >>)

Elements == {B_none, B_c, B_xy, A_name, A_d, A_z, A_up, A_empty}

MaxElems == 3
MaxElemsTwo == 2
MaxStops == 2

DocsUpTo(n) == UNION {[1..k -> Elements] : k \in 0..n}

BaseUrls == {None, U_ab, U_abi}
Hints == {None, [str |-> "sampleproject"]}

(***************************************************************************)
(* parse_links                                                             *)
(***************************************************************************)
StopIteration == [stop |-> TRUE]

\* soup.find('base', href=True): the first <base> element carrying an href
RECURSIVE find_base(_)
find_base(soup) ==
    IF soup = <<>> THEN None
    ELSE IF Head(soup).name = "base" /\ "href" \in DOMAIN Head(soup).attrs
         THEN Head(soup)
         ELSE find_base(Tail(soup))

\* a variant that tests the href's truth value, so that href="" counts as
\* no href
find_all_a_truthy(soup) ==
    SelectSeq(soup, LAMBDA tag : /\ tag.name = "a"
                                 /\ "href" \in DOMAIN tag.attrs
                                 /\ tag.attrs["href"] # EmptyUrl)

\* soup.find_all('a', href=True)
find_all_a(soup) ==
    SelectSeq(soup, LAMBDA tag : tag.name = "a" /\ "href" \in DOMAIN tag.attrs)

\* a variant in which a supplied base_url wins over the <base> tag
EffectiveBase_arg_wins(base_url_arg, base_tag) ==
    IF base_tag # None /\ base_url_arg = None
    THEN base_tag.attrs["href"]
    ELSE base_url_arg

\* the rebinding of base_url from the <base> tag
EffectiveBase(base_url_arg, base_tag) ==
    IF base_tag # None
    THEN IF base_url_arg = None
         THEN base_tag.attrs["href"]
         ELSE urljoin(base_url_arg, base_tag.attrs["href"])
    ELSE base_url_arg

\* a variant that joins the wrong way round
basejoin_swapped(base_url_local, url) ==
    IF base_url_local = None THEN url ELSE urljoin(url, base_url_local)

\* the closure basejoin, over the local base_url
basejoin(base_url_local, url) ==
    IF base_url_local = None THEN url ELSE urljoin(base_url_local, url)

\* a variant that strips every text node before joining them
RECURSIVE JoinStripped(_)
JoinStripped(strings) ==
    IF strings = <<>> THEN <<>>
    ELSE Strip(Head(strings)) \o JoinStripped(Tail(strings))

LinkText_strip_each(link) == JoinStripped(link.strings)

\* ''.join(link.strings).strip()
LinkText(link) == Strip(JoinStrings(link.strings))

\* a variant that stores the resolved url back into the tag
Triple_rewrites_href(link, base_url_local) ==
    LET url == basejoin(base_url_local, link.attrs["href"]) IN
    <<LinkText(link), url, [link.attrs EXCEPT !["href"] = url]>>

\* the yielded triple
Triple(link, base_url_local) ==
    <<LinkText(link), basejoin(base_url_local, link.attrs["href"]), link.attrs>>

\* the generator object parse_links(html, base_url) returns: no line of
\* its body has run
NewGen(html_arg, base_url_arg) ==
    [pc |-> "created", html |-> html_arg, base_url |-> base_url_arg,
     links |-> <<>>, i |-> 0]

NoGen == [pc |-> "none", html |-> <<>>, base_url |-> None, links |-> <<>>, i |-> 0]

\* the body up to the for loop, run by the first next()
GenStart(g) ==
    [g EXCEPT !.base_url = EffectiveBase(g.base_url, find_base(g.html)),
              !.links = find_all_a(g.html)]

\* a variant whose exhausted iterator starts over, as a list would
gen_next_restarts(g) ==
    IF g.pc = "closed" THEN [frame |-> g, value |-> StopIteration]
    ELSE LET s == IF g.pc = "created" THEN GenStart(g)
                  ELSE IF g.pc = "finished" THEN [g EXCEPT !.i = 0]
                  ELSE g
         IN
         IF s.i < Len(s.links)
         THEN [frame |-> [s EXCEPT !.pc = "suspended", !.i = s.i + 1],
               value |-> Triple(s.links[s.i + 1], s.base_url)]
         ELSE [frame |-> [s EXCEPT !.pc = "finished"], value |-> StopIteration]

\* next(g): the frame afterwards and the value the request gets
gen_next(g) ==
    IF g.pc \in {"finished", "closed"} THEN [frame |-> g, value |-> StopIteration]
    ELSE LET s == IF g.pc = "created" THEN GenStart(g) ELSE g IN
         IF s.i < Len(s.links)
         THEN [frame |-> [s EXCEPT !.pc = "suspended", !.i = s.i + 1],
               value |-> Triple(s.links[s.i + 1], s.base_url)]
         ELSE [frame |-> [s EXCEPT !.pc = "finished"], value |-> StopIteration]

\* g.close(), or the generator being dropped, before it ran to its end
\* ("closed" and "finished" differ in name only: next() raises StopIteration
\* in both)
gen_close(g) == [g EXCEPT !.pc = "closed"]

(***************************************************************************)
(* The callers                                                             *)
(*                                                                         *)
(* html, base_url, project_hint: the arguments of the call under study.    *)
(* caller: the entry point the client called.                              *)
(* gen: the parse_links generator objects: "g1" and "g2" are held by the   *)
(*   client itself, "index" by the parse_simple_index generator, "page" by *)
(*   the running parse_project_page.                                       *)
(* got, stops: what the client's next() requests on "g1", "g2" and on the  *)
(*   parse_simple_index generator ("index") have returned so far: the      *)
(*   values, and the number of StopIterations.                             *)
(* index: the parse_simple_index generator object.                         *)
(* page: the parse_project_page call: its position, its local files, the   *)
(*   list it returned or the exception that left it.                       *)
(* calls: the classifier's invocations, each with its outcome.             *)
(***************************************************************************)
VARIABLES html, base_url, project_hint, caller, gen, got, stops, index, page, calls

vars == <<html, base_url, project_hint, caller, gen, got, stops, index, page, calls>>

GenIds == {"g1", "g2", "index", "page"}
Iterators == {"g1", "g2", "index"}

InitCommon ==
    /\ base_url \in BaseUrls
    /\ got = [c \in Iterators |-> <<>>]
    /\ stops = [c \in Iterators |-> 0]
    /\ calls = <<>>

\* one call of one entry point
Init ==
    /\ InitCommon
    /\ html \in DocsUpTo(MaxElems)
    /\ caller \in {"parse_links", "parse_simple_index", "parse_project_page"}
    /\ project_hint \in (IF caller = "parse_project_page" THEN Hints ELSE {None})
    /\ gen = [g \in GenIds |->
                IF g = "g1" /\ caller = "parse_links"
                THEN NewGen(html, base_url) ELSE NoGen]
    /\ index = [pc |-> IF caller = "parse_simple_index" THEN "created" ELSE "none"]
    /\ page = [pc |-> IF caller = "parse_project_page" THEN "called" ELSE "none",
               files |-> <<>>, result |-> None, exc |-> None]

\* two calls of parse_links on the same input
InitTwo ==
    /\ InitCommon
    /\ html \in DocsUpTo(MaxElemsTwo)
    /\ caller = "parse_links"
    /\ project_hint = None
    /\ gen = [g \in GenIds |->
                IF g \in {"g1", "g2"} THEN NewGen(html, base_url) ELSE NoGen]
    /\ index = [pc |-> "none"]
    /\ page = [pc |-> "none", files |-> <<>>, result |-> None, exc |-> None]

\* what a next() request hands to the client
Deliver(c, value) ==
    IF value = StopIteration
    THEN /\ stops' = [stops EXCEPT ![c] = @ + 1]
         /\ got' = got
    ELSE /\ got' = [got EXCEPT ![c] = Append(@, value)]
         /\ stops' = stops

\* a variant in which the client's generators share one iteration state
LinksNext_shared(g) ==
    /\ g \in {"g1", "g2"}
    /\ gen[g].pc # "none"
    /\ stops[g] < MaxStops
    /\ LET r == gen_next(gen[g]) IN
         /\ gen' = [h \in GenIds |->
                      IF h \in {"g1", "g2"} /\ gen[h].pc \notin {"none", "closed"}
                      THEN r.frame ELSE gen[h]]
         /\ Deliver(g, r.value)
    /\ UNCHANGED <<html, base_url, project_hint, caller, index, page, calls>>

\* the client calls next() on one of its parse_links generators
LinksNext(g) ==
    /\ g \in {"g1", "g2"}
    /\ gen[g].pc # "none"
    /\ stops[g] < MaxStops
    /\ LET r == gen_next(gen[g]) IN
         /\ gen' = [gen EXCEPT ![g] = r.frame]
         /\ Deliver(g, r.value)
    /\ UNCHANGED <<html, base_url, project_hint, caller, index, page, calls>>

\* the client closes (or drops) one of its parse_links generators
LinksClose(g) ==
    /\ g \in {"g1", "g2"}
    /\ gen[g].pc \in {"created", "suspended"}
    /\ gen' = [gen EXCEPT ![g] = gen_close(@)]
    /\ UNCHANGED <<html, base_url, project_hint, caller, got, stops, index, page, calls>>

(***************************************************************************)
(* parse_simple_index                                                      *)
(***************************************************************************)
\* a variant that yields the href as written instead of the url
IndexPair_raw_href(triple) == <<triple[1], triple[3]["href"]>>

\* yield (filename, url)
IndexPair(triple) == <<triple[1], triple[2]>>

\* the client calls next() on the parse_simple_index generator: the for
\* statement pulls one triple from parse_links (which the first request
\* calls), and the pair is yielded
IndexNext ==
    /\ index.pc # "none"
    /\ stops["index"] < MaxStops
    /\ IF index.pc = "finished"
       THEN /\ Deliver("index", StopIteration)
            /\ UNCHANGED <<gen, index>>
       ELSE LET inner == IF index.pc = "created"
                         THEN NewGen(html, base_url) ELSE gen["index"]
                r == gen_next(inner)
            IN
            /\ gen' = [gen EXCEPT !["index"] = r.frame]
            /\ index' = [index EXCEPT !.pc =
                            IF r.value = StopIteration THEN "finished" ELSE "suspended"]
            /\ Deliver("index", IF r.value = StopIteration
                                THEN StopIteration ELSE IndexPair(r.value))
    /\ UNCHANGED <<html, base_url, project_hint, caller, page, calls>>

(***************************************************************************)
(* parse_project_page                                                      *)
(***************************************************************************)
\* classes.Link(text, url, attrs)
Link(text, url, attrs) == [text |-> text, url |-> url, attrs |-> attrs]

\* what DistributionPackage.from_link(link, project_hint) returns, when it
\* returns
from_link(link, hint) == [package_of |-> link, project_hint |-> hint]

\* what it raises, when it raises
from_link_error(link, hint) == [error_on |-> link, project_hint |-> hint]

\* files = [], and the call of parse_links the for statement iterates
PageEnter ==
    /\ page.pc = "called"
    /\ page' = [page EXCEPT !.pc = "loop", !.files = <<>>]
    /\ gen' = [gen EXCEPT !["page"] = NewGen(html, base_url)]
    /\ UNCHANGED <<html, base_url, project_hint, caller, got, stops, index, calls>>

\* the for statement finds parse_links exhausted: return files
PageReturn ==
    /\ page.pc = "loop"
    /\ LET r == gen_next(gen["page"]) IN
         /\ r.value = StopIteration
         /\ gen' = [gen EXCEPT !["page"] = r.frame]
         /\ page' = [page EXCEPT !.pc = "returned", !.result = page.files]
    /\ UNCHANGED <<html, base_url, project_hint, caller, got, stops, index, calls>>

\* a variant that puts each package at the front of files
PageAppend_at_front ==
    /\ page.pc = "loop"
    /\ LET r == gen_next(gen["page"]) IN
         /\ r.value # StopIteration
         /\ LET link == Link(r.value[1], r.value[2], r.value[3])
                package == from_link(link, project_hint)
            IN
            /\ gen' = [gen EXCEPT !["page"] = r.frame]
            /\ calls' = Append(calls, [link |-> link, project_hint |-> project_hint,
                                       returned |-> package, raised |-> None])
            /\ page' = [page EXCEPT !.files = <<package>> \o @]
    /\ UNCHANGED <<html, base_url, project_hint, caller, got, stops, index>>

\* one pass of the loop body, the classifier returning a package
PageAppend ==
    /\ page.pc = "loop"
    /\ LET r == gen_next(gen["page"]) IN
         /\ r.value # StopIteration
         /\ LET link == Link(r.value[1], r.value[2], r.value[3])
                package == from_link(link, project_hint)
            IN
            /\ gen' = [gen EXCEPT !["page"] = r.frame]
            /\ calls' = Append(calls, [link |-> link, project_hint |-> project_hint,
                                       returned |-> package, raised |-> None])
            /\ page' = [page EXCEPT !.files = Append(@, package)]
    /\ UNCHANGED <<html, base_url, project_hint, caller, got, stops, index>>

\* a variant that catches the classifier's exception and goes on with the
\* next link
PageRaise_swallowed ==
    /\ page.pc = "loop"
    /\ LET r == gen_next(gen["page"]) IN
         /\ r.value # StopIteration
         /\ LET link == Link(r.value[1], r.value[2], r.value[3])
                error == from_link_error(link, project_hint)
            IN
            /\ gen' = [gen EXCEPT !["page"] = r.frame]
            /\ calls' = Append(calls, [link |-> link, project_hint |-> project_hint,
                                       returned |-> None, raised |-> error])
            /\ page' = page
    /\ UNCHANGED <<html, base_url, project_hint, caller, got, stops, index>>

\* one pass of the loop body, the classifier raising: nothing catches the
\* exception, it leaves parse_project_page, whose generator is dropped
PageRaise ==
    /\ page.pc = "loop"
    /\ LET r == gen_next(gen["page"]) IN
         /\ r.value # StopIteration
         /\ LET link == Link(r.value[1], r.value[2], r.value[3])
                error == from_link_error(link, project_hint)
            IN
            /\ gen' = [gen EXCEPT !["page"] = gen_close(r.frame)]
            /\ calls' = Append(calls, [link |-> link, project_hint |-> project_hint,
                                       returned |-> None, raised |-> error])
            /\ page' = [page EXCEPT !.pc = "raised", !.exc = error]
    /\ UNCHANGED <<html, base_url, project_hint, caller, got, stops, index>>

Next ==
    \/ \E g \in {"g1", "g2"} : LinksNext(g)
    \/ \E g \in {"g1", "g2"} : LinksClose(g)
    \/ IndexNext
    \/ PageEnter
    \/ PageReturn
    \/ PageAppend
    \/ PageRaise

Spec == Init /\ [][Next]_vars

NextTwo ==
    \/ \E g \in {"g1", "g2"} : LinksNext(g)
    \/ \E g \in {"g1", "g2"} : LinksClose(g)

SpecTwo == InitTwo /\ [][NextTwo]_vars

(***************************************************************************)
(* The document as the claims speak of it                                  *)
(***************************************************************************)
\* the positions of the <a> elements that carry an href
AnchorPositions ==
    {k \in 1..Len(html) : html[k].name = "a" /\ "href" \in DOMAIN html[k].attrs}

NumAnchors == Cardinality(AnchorPositions)

\* the n-th of them in document order
NthAnchor(n) ==
    html[CHOOSE k \in AnchorPositions :
            Cardinality({j \in AnchorPositions : j <= k}) = n]

\* the positions of the <base> elements that carry an href
BasePositions ==
    {k \in 1..Len(html) : html[k].name = "base" /\ "href" \in DOMAIN html[k].attrs}

FirstBaseHref ==
    html[CHOOSE k \in BasePositions : \A j \in BasePositions : k <= j].attrs["href"]

\* the effective base, case by case
DeclaredBase ==
    IF BasePositions = {} THEN base_url
    ELSE IF base_url = None THEN FirstBaseHref
    ELSE urljoin(base_url, FirstBaseHref)

\* t is s without its leading and trailing whitespace
IsStripped(t, s) ==
    \E i, j \in 0..Len(s) :
        /\ i + j <= Len(s)
        /\ t = SubSeq(s, i + 1, Len(s) - j)
        /\ \A k \in 1..i : s[k] \in Whitespace
        /\ \A k \in (Len(s) - j + 1)..Len(s) : s[k] \in Whitespace
        /\ t # <<>> => (t[1] \notin Whitespace /\ t[Len(t)] \notin Whitespace)

\* the text nodes of an element, one after the other
RECURSIVE AllText(_)
AllText(strings) ==
    IF Len(strings) = 0 THEN <<>>
    ELSE AllText(SubSeq(strings, 1, Len(strings) - 1)) \o strings[Len(strings)]

\* everything a fresh parse_links(html, base_url) yields, in order
RECURSIVE Drain(_)
Drain(g) ==
    LET r == gen_next(g) IN
    IF r.value = StopIteration THEN <<>> ELSE <<r.value>> \o Drain(r.frame)

AllTriples == Drain(NewGen(html, base_url))

IsPrefix(s, t) == Len(s) <= Len(t) /\ s = SubSeq(t, 1, Len(s))

\* the iterator ran to its end and the client has seen it
Exhausted(g) == gen[g].pc = "finished" /\ stops[g] > 0

(***************************************************************************)
(* The claims                                                              *)
(***************************************************************************)
ClientGens == {"g1", "g2"}

\* C1: parse_links yields exactly one triple per <a> element carrying an
\* href, in document order, and none for an <a> without href: the n-th
\* triple comes from the n-th href-carrying anchor, there are never more
\* triples than such anchors, and an iterator that ran to its end has
\* yielded exactly as many (none for a document without such anchors).
C1_OneTriplePerHrefAnchor ==
    \A g \in ClientGens :
        /\ Len(got[g]) <= NumAnchors
        /\ \A n \in 1..Len(got[g]) :
              /\ Len(got[g][n]) = 3
              /\ got[g][n][3] = NthAnchor(n).attrs
        /\ Exhausted(g) => Len(got[g]) = NumAnchors

\* an anchor without href and an empty-href anchor stand before another
\* href-carrying anchor, and the iterator ran to its end
C1_Witness ==
    /\ html = <<A_name, A_empty, A_z>>
    /\ Exhausted("g1")
    /\ Len(got["g1"]) = 2

\* a document without any <a>: the iterator ran to its end and gave nothing
C1_WitnessEmpty ==
    /\ html = <<B_c>>
    /\ Exhausted("g1")
    /\ got["g1"] = <<>>

\* C2: the effective base of a call, once its body has run, is: the first
\* <base href>'s href when base_url is not supplied; that href urljoined
\* onto base_url when it is ("http://a/b/" with <base href="c/"> gives
\* "http://a/b/c/"); base_url itself (possibly None) when no <base> carries
\* an href.
C2_EffectiveBase ==
    \A g \in GenIds :
        gen[g].pc \in {"suspended", "finished"} =>
            /\ gen[g].base_url = DeclaredBase
            /\ (BasePositions = {}) => gen[g].base_url = base_url
            /\ (BasePositions # {} /\ base_url = None) =>
                  gen[g].base_url = FirstBaseHref
            /\ (BasePositions # {} /\ base_url = U_ab /\ FirstBaseHref = U_c) =>
                  gen[g].base_url = U_abc

\* base_url "http://a/b/" and a <base href="c/"> that follows a <base>
\* without href and precedes another <base href>
C2_Witness ==
    /\ html = <<B_none, B_c, B_xy>>
    /\ base_url = U_ab
    /\ gen["g1"].pc = "finished"
    /\ gen["g1"].base_url = U_abc

\* C3: every yielded url is the anchor's raw href resolved against the one
\* effective base of the call, wherever the anchor stands relative to the
\* <base> element; with no effective base (no base_url, no <base href>) it
\* is the raw href verbatim.  <base href="http://x/y/"> and href "z" give
\* "http://x/y/z"; base_url "http://a/b/", <base href="c/"> and href "d"
\* give "http://a/b/c/d".
C3_UrlsResolved ==
    \A g \in ClientGens : \A n \in 1..Len(got[g]) :
        LET href == NthAnchor(n).attrs["href"]
            url == got[g][n][2]
            base == DeclaredBase
        IN
        /\ base = None => url = href
        /\ base # None => url = urljoin(base, href)
        /\ (base_url = None /\ base = U_xy /\ href = U_z) => url = U_xyz
        /\ (base = U_abc /\ href = U_d) => url = U_abcd

\* an anchor before the <base> element and one after it, both resolved
\* against "http://a/b/c/"
C3_Witness ==
    /\ html = <<A_d, B_c, A_up>>
    /\ base_url = U_ab
    /\ Len(got["g1"]) = 2
    /\ got["g1"][1][2] = U_abcd
    /\ got["g1"][2][2] = Url("http", "a", <<"", "b", "e">>)

\* no base at all: the relative href comes back verbatim
C3_WitnessVerbatim ==
    /\ html = <<A_up>>
    /\ base_url = None
    /\ Len(got["g1"]) = 1
    /\ got["g1"][1][2] = U_up

\* C4: parse_simple_index yields, for the same arguments, the triples of
\* parse_links projected to (text, url), same length and order, and lazily:
\* before the first request parse_links has not been called, and afterwards
\* it has been asked for exactly one triple per pair handed out.
C4_IndexIsProjection ==
    /\ LET triples == AllTriples IN
       /\ Len(got["index"]) <= Len(triples)
       /\ \A n \in 1..Len(got["index"]) :
             got["index"][n] = <<triples[n][1], triples[n][2]>>
       /\ (index.pc = "finished" /\ stops["index"] > 0) =>
             Len(got["index"]) = Len(triples)
    /\ index.pc = "created" => (gen["index"].pc = "none" /\ got["index"] = <<>>)
    /\ index.pc = "suspended" =>
          (gen["index"].pc = "suspended" /\ gen["index"].i = Len(got["index"]))

\* the two pairs of a page whose links are ("PkgA", "http://x/y/z") and
\* ("PkgB", "http://x/e"), the generator having ended
C4_Witness ==
    /\ html = <<B_xy, A_z, A_up>>
    /\ base_url = None
    /\ index.pc = "finished"
    /\ got["index"] = << <<<<"P", "k", "g", "A">>, U_xyz>>,
                         <<<<"P", "k", "g", "B">>, U_xe>> >>

\* C5: parse_project_page returns only after parse_links is exhausted, and
\* the list it returns has one record per triple, in document order, the
\* n-th being the classifier's result for Link(text_n, url_n, attrs_n) and
\* the caller's project_hint; the classifier is invoked once per link, in
\* document order.
C5_PageRecords ==
    LET triples == AllTriples IN
    /\ \A n \in 1..Len(calls) :
          /\ n <= Len(triples)
          /\ calls[n].link = Link(triples[n][1], triples[n][2], triples[n][3])
          /\ calls[n].project_hint = project_hint
    /\ page.pc = "returned" =>
          /\ gen["page"].pc = "finished"
          /\ Len(calls) = Len(triples)
          /\ Len(page.result) = Len(triples)
          /\ \A n \in 1..Len(triples) :
                /\ page.result[n] = calls[n].returned
                /\ page.result[n] =
                      from_link(Link(triples[n][1], triples[n][2], triples[n][3]),
                                project_hint)

\* a page of three links, a hint given, the list of three records returned
C5_Witness ==
    /\ html = <<A_d, A_z, A_up>>
    /\ project_hint # None
    /\ page.pc = "returned"
    /\ Len(page.result) = 3
    /\ base_url = U_abi
    /\ page.result[3].package_of.url = Url("http", "a", <<"", "e">>)

\* C6: two calls of parse_links on the same input give element-wise
\* identical sequences and are independently iterable: under every
\* interleaving of next() and close() on the two, each iterator's position
\* is its own count of triples handed out, what it hands out is the
\* document's sequence in order, and one that runs to its end has handed
\* out the full sequence whatever happened to the other.
C6_Independent ==
    /\ \A n \in 1..Len(got["g1"]) :
          n <= Len(got["g2"]) => got["g1"][n] = got["g2"][n]
    /\ LET triples == AllTriples IN
       \A g \in ClientGens :
          /\ IsPrefix(got[g], triples)
          /\ gen[g].pc # "created" => gen[g].i = Len(got[g])
          /\ gen[g].pc = "created" => got[g] = <<>>
          /\ Exhausted(g) => got[g] = triples

\* the second iterator was closed after one triple; the first still ran to
\* its end and gave both
C6_Witness ==
    /\ html = <<A_z, A_d>>
    /\ gen["g2"].pc = "closed"
    /\ Len(got["g2"]) = 1
    /\ Exhausted("g1")
    /\ Len(got["g1"]) = 2

\* C7: the attributes map of every triple holds the anchor's href as
\* written, under the key "href", also when the url differs from it; the
\* map is the anchor's map, unmodified.
C7_HrefUnmodified ==
    \A g \in ClientGens : \A n \in 1..Len(got[g]) :
        LET anchor == NthAnchor(n) IN
        /\ "href" \in DOMAIN got[g][n][3]
        /\ got[g][n][3]["href"] = anchor.attrs["href"]
        /\ got[g][n][3] = anchor.attrs
        /\ gen[g].links[n].attrs = anchor.attrs

\* a base was applied: the url is "http://a/b/d", the map still says "d"
C7_Witness ==
    /\ html = <<A_d>>
    /\ base_url = U_abi
    /\ Len(got["g1"]) = 1
    /\ got["g1"][1][2] = Url("http", "a", <<"", "b", "d">>)
    /\ got["g1"][1][3]["href"] = U_d
    /\ got["g1"][1][3]["class"] = << <<"a">>, <<"b">> >>

\* C8: the text of every triple is the concatenation of the anchor's
\* descendant text nodes in document order, without its leading and
\* trailing whitespace and with its internal whitespace as it was: the nodes
\* "  ", "foo", " \n ", "bar", "  " give "foo \n bar".
C8_TextStripped ==
    \A g \in ClientGens : \A n \in 1..Len(got[g]) :
        LET anchor == NthAnchor(n) IN
        /\ IsStripped(got[g][n][1], AllText(anchor.strings))
        /\ anchor = A_d =>
              got[g][n][1] = <<"f", "o", "o", " ", "\n", " ", "b", "a", "r">>

\* the anchor of five text nodes, and one whose text is whitespace only
C8_Witness ==
    /\ html = <<A_d, A_empty>>
    /\ Len(got["g1"]) = 2
    /\ got["g1"][1][1] = <<"f", "o", "o", " ", "\n", " ", "b", "a", "r">>
    /\ got["g1"][2][1] = <<>>

\* the state part of C9: never more values than href-carrying anchors, and
\* the generator never ahead of the requests
C9_LazyFinite ==
    \A c \in Iterators :
        /\ Len(got[c]) <= NumAnchors
        /\ gen[c].pc \in {"none", "created"} => gen[c].i = 0 /\ gen[c].links = <<>>
        /\ gen[c].pc \in {"suspended", "finished", "closed"} => gen[c].i = Len(got[c])
        /\ Len(got[c]) = 0 /\ stops[c] = 0 => gen[c].pc \in {"none", "created", "closed"}

\* the step part of C9: a request hands out at most one value, after the
\* ones handed out before, and nothing once a request has found the
\* iterator exhausted
C9_ForwardOnly ==
    \A c \in Iterators :
        /\ IsPrefix(got[c], got'[c])
        /\ Len(got'[c]) <= Len(got[c]) + 1
        /\ stops[c] > 0 => got'[c] = got[c]
        /\ Len(got[c]) = NumAnchors => got'[c] = got[c]

\* C9: the sequence parse_links (and parse_simple_index) returns is lazy,
\* finite and forward-only: a value is produced only on request, there are
\* at most as many as href-carrying anchors, and once a request found the
\* iterator exhausted every further request yields nothing.
C9_LazyFiniteForwardOnly == []C9_LazyFinite /\ [][C9_ForwardOnly]_vars

\* an iterator that gave its two triples and then answered two further
\* requests with nothing
C9_Witness ==
    /\ html = <<A_z, B_c, A_d>>
    /\ caller = "parse_links"
    /\ Len(got["g1"]) = 2
    /\ stops["g1"] = 2

\* the same for the parse_simple_index generator
C9_WitnessIndex ==
    /\ html = <<A_z, B_c, A_d>>
    /\ Len(got["index"]) = 2
    /\ stops["index"] = 2

\* C10: when the classifier raises for the k-th link, that error leaves
\* parse_project_page: no list is returned, the k-th link was handed to the
\* classifier (not skipped), the k-1 links before it were classified, and
\* the classifier is invoked for no later link.
C10_ErrorPropagates ==
    /\ \A n \in 1..Len(calls) :
          calls[n].raised # None =>
              /\ n = Len(calls)
              /\ page.pc = "raised"
              /\ page.exc = calls[n].raised
    /\ page.pc = "raised" =>
          /\ Len(calls) >= 1
          /\ calls[Len(calls)].raised # None
          /\ page.exc = calls[Len(calls)].raised
          /\ page.result = None
          /\ Len(page.files) = Len(calls) - 1
          /\ LET kth == AllTriples[Len(calls)] IN
             calls[Len(calls)].link = Link(kth[1], kth[2], kth[3])
    /\ page.pc # "returned" => page.result = None

\* the classifier raised on the second of three links
C10_Witness ==
    /\ html = <<A_d, A_z, A_up>>
    /\ page.pc = "raised"
    /\ Len(calls) = 2
    /\ Len(page.files) = 1
    /\ page.exc = from_link_error(calls[2].link, project_hint)
    /\ calls[2].link.attrs = A_z.attrs

====
